---------------------------- MODULE Spec2Model ----------------------------
(***************************************************************************)
(* Model of the binding generator: common.generate (the batch driver),    *)
(* common.Device / common.Packet (the schema model), the size helpers, and *)
(* the parts of the Java backend that derive protocol tables and wire      *)
(* layout from a Device.                                                   *)
(*                                                                         *)
(* Python strings that the code inspects (packet names, config file        *)
(* names) are sequences of one-character strings.  Python dicts are        *)
(* functions whose DOMAIN is the set of keys present, so "key in dict" is  *)
(* "key \in DOMAIN dict".  Packet dicts are shared by reference, so they   *)
(* live in a heap indexed by reference.                                    *)
(*                                                                         *)
(* Spec is generate() called up to MaxRuns times in one process on one     *)
(* day; DaySpec lets the clock pass midnight in between; CallSpec is one   *)
(* call of get_type_size, or of the pack and unpack code emitted for one   *)
(* element list, on drawn arguments.                                       *)
(***************************************************************************)
EXTENDS Integers, Sequences, FiniteSets, TLC

VARIABLES
    files,      \* os.listdir(path_config): the file names in configs/
    declared,   \* the packet dicts as the config modules write them down
    heap,       \* packet dicts by reference (the objects in com['packets'])
    com,        \* module.com of every config module (cached by __import__)
    common,     \* brick_commonconfig.common_packets, as references
    pc,         \* position of the process: idle, loop, done, raised
    todo,       \* files the for loop of generate() has not reached yet
    runs,       \* number of generate() calls started in this process
    status,     \* per config file and run: Unloaded, Emitted, Failed
    devices,    \* Device objects built by make_files in this run
    output,     \* what the backend emitted per device in this run
    last,       \* the latest Device(com) call of this run: its input and outcome
    opened,     \* config files whose output file this run opened with mode 'wb'
    call,       \* one call of a pure function or of emitted code: input and result
    today,      \* the day datetime.datetime.now() falls on, as an index of Days
    previous    \* what the generate() call before the current one emitted

vars == <<files, declared, heap, com, common, pc, todo, runs, status, devices, output, last, opened, call, today, previous>>

-----------------------------------------------------------------------------
(* Bounds of the model *)

MaxPackets == 2     \* own packets per generated brick configuration
MaxCommon  == 1     \* packets in brick_commonconfig.common_packets
MaxRuns    == 2     \* generate() calls in one process
MaxElems   == 2     \* elements per packet in the single-packet inputs
MaxCard    == 2     \* largest cardinality in the single-packet inputs
MaxArgs    == 2     \* elements of a packet whose emitted code is executed
MaxString  == 3     \* longest String argument handed to an emitted method

\* the days the process may run on, as strftime("%Y-%m-%d") prints them
Days == <<"2013-01-30", "2013-01-31">>

-----------------------------------------------------------------------------
(* Strings *)

UpperChars == <<"A","B","C","D","E","F","G","H","I","J","K","L","M",
                "N","O","P","Q","R","S","T","U","V","W","X","Y","Z">>
LowerChars == <<"a","b","c","d","e","f","g","h","i","j","k","l","m",
                "n","o","p","q","r","s","t","u","v","w","x","y","z">>

\* one character of str.lower()
ToLower ==
    [c \in {UpperChars[i] : i \in 1..26} |->
        LowerChars[CHOOSE i \in 1..26 : UpperChars[i] = c]]
LowerChar(c) == IF c \in DOMAIN ToLower THEN ToLower[c] ELSE c

\* one character of str.upper()
ToUpper ==
    [c \in {LowerChars[i] : i \in 1..26} |->
        UpperChars[CHOOSE i \in 1..26 : LowerChars[i] = c]]
UpperChar(c) == IF c \in DOMAIN ToUpper THEN ToUpper[c] ELSE c

\* str.upper()
Upper(s) == [i \in 1..Len(s) |-> UpperChar(s[i])]

\* str.lower()
Lower(s) == [i \in 1..Len(s) |-> LowerChar(s[i])]

\* str.replace(ch, '') for a one-character ch
RemoveChar(s, ch) == SelectSeq(s, LAMBDA c : c # ch)

\* sub in s
Contains(s, sub) ==
    \E i \in 0..(Len(s) - Len(sub)) : SubSeq(s, i + 1, i + Len(sub)) = sub

\* s.endswith(suffix)
EndsWith(s, suffix) ==
    /\ Len(s) >= Len(suffix)
    /\ SubSeq(s, Len(s) - Len(suffix) + 1, Len(s)) = suffix

RECURSIVE SumSeq(_)
SumSeq(s) == IF s = <<>> THEN 0 ELSE Head(s) + SumSeq(Tail(s))

RECURSIVE SeqsUpTo(_, _)
\* all sequences over S of length at most n
SeqsUpTo(S, n) ==
    IF n = 0 THEN {<<>>}
    ELSE LET shorter == SeqsUpTo(S, n - 1)
         IN  shorter \cup {Append(s, x) : s \in shorter, x \in S}

-----------------------------------------------------------------------------
(* common.py: sizes *)

\* a table that names the 4-byte floating point type 'float32'
types_float32 ==
    [t \in {"int8","uint8","int16","uint16","int32","uint32",
            "int64","uint64","float32","bool","string","char"} |->
        CASE t \in {"int8","uint8","bool","string","char"} -> 1
          [] t \in {"int16","uint16"} -> 2
          [] t \in {"int32","uint32","float32"} -> 4
          [] t \in {"int64","uint64"} -> 8]

types ==
    [t \in {"int8","uint8","int16","uint16","int32","uint32",
            "int64","uint64","float","bool","string","char"} |->
        CASE t \in {"int8","uint8","bool","string","char"} -> 1
          [] t \in {"int16","uint16"} -> 2
          [] t \in {"int32","uint32","float"} -> 4
          [] t \in {"int64","uint64"} -> 8]

\* types[typ] raises KeyError
get_type_size_raises(typ) == typ \notin DOMAIN types

get_type_size(typ) == types[typ]

\* an element is the tuple (name, type, cardinality, direction)
get_element_size(element) == get_type_size(element[2]) * element[3]

-----------------------------------------------------------------------------
(* common.py: Packet *)

\* a name check that lower-cases both names
NameMismatchIgnoringCase(packet) ==
    Lower(packet.name[1]) # Lower(RemoveChar(packet.name[2], "_"))

NameMismatch(packet) ==
    Lower(packet.name[1]) # RemoveChar(packet.name[2], "_")

\* a direction check that looks at the first element only
InvalidDirectionFirstOnly(packet) ==
    /\ Len(packet.elements) > 0
    /\ packet.elements[1][4] \notin {"in", "out"}

InvalidDirection(packet) ==
    \E i \in 1..Len(packet.elements) : packet.elements[i][4] \notin {"in", "out"}

\* Packet.__init__ raises ValueError
PacketRaises(packet) == NameMismatch(packet) \/ InvalidDirection(packet)

\* a Packet that prepends to in_elements instead of appending
PacketPrependingIn(ref, packet) ==
    LET ins == SelectSeq(packet.elements, LAMBDA e : e[4] = "in")
    IN  [packet       |-> ref,
         all_elements |-> packet.elements,
         in_elements  |-> [i \in 1..Len(ins) |-> ins[Len(ins) + 1 - i]],
         out_elements |-> SelectSeq(packet.elements, LAMBDA e : e[4] = "out")]

\* the Packet object for the dict at reference ref (when __init__ returns)
Packet(ref, packet) ==
    [packet       |-> ref,
     all_elements |-> packet.elements,
     in_elements  |-> SelectSeq(packet.elements, LAMBDA e : e[4] = "in"),
     out_elements |-> SelectSeq(packet.elements, LAMBDA e : e[4] = "out")]

get_elements(p, direction) ==
    CASE direction = "all" -> p.all_elements
      [] direction = "in"  -> p.in_elements
      [] direction = "out" -> p.out_elements

get_type(h, p) == h[p.packet].type
get_doc(h, p) == h[p.packet].doc
get_function_id(h, p) == h[p.packet].function_id
get_upper_case_name(h, p) == Upper(h[p.packet].name[2])

\* a get_request_length that does not tell the directions apart
get_request_length_all_elements(p) ==
    4 + SumSeq([i \in 1..Len(p.all_elements) |-> get_element_size(p.all_elements[i])])

get_request_length(p) ==
    4 + SumSeq([i \in 1..Len(p.in_elements) |-> get_element_size(p.in_elements[i])])

get_response_length(p) ==
    4 + SumSeq([i \in 1..Len(p.out_elements) |-> get_element_size(p.out_elements[i])])

\* get_request_length raises the KeyError of get_type_size
get_request_length_raises(p) ==
    \E i \in 1..Len(p.in_elements) : get_type_size_raises(p.in_elements[i][2])

-----------------------------------------------------------------------------
(* common.py: Device *)

\* index of the first packet whose Packet(...) raises, 0 when none does
FirstRaising(h, refs) ==
    LET raises == [i \in 1..Len(refs) |-> PacketRaises(h[refs[i]])]
    IN  IF \E i \in 1..Len(refs) : raises[i]
        THEN CHOOSE i \in 1..Len(refs) :
                /\ raises[i]
                /\ \A j \in 1..(i - 1) : ~raises[j]
        ELSE 0

\* an assignment of the 0-based loop index i instead of i + 1
AssignIdsZeroBased(h, refs, k) ==
    [r \in DOMAIN h |->
        IF "function_id" \notin DOMAIN h[r] /\ \E i \in 1..k : refs[i] = r
        THEN ("function_id" :> ((CHOOSE i \in 1..k :
                                   /\ refs[i] = r
                                   /\ \A j \in 1..(i - 1) : refs[j] # r) - 1)) @@ h[r]
        ELSE h[r]]

\* packet['function_id'] = i + 1 for the packets without the key, for the
\* first k loop iterations (i + 1 is the 1-based position)
AssignIds(h, refs, k) ==
    [r \in DOMAIN h |->
        IF "function_id" \notin DOMAIN h[r] /\ \E i \in 1..k : refs[i] = r
        THEN ("function_id" :> (CHOOSE i \in 1..k :
                                   /\ refs[i] = r
                                   /\ \A j \in 1..(i - 1) : refs[j] # r)) @@ h[r]
        ELSE h[r]]

InvalidType(h, refs) ==
    \E i \in 1..Len(refs) : h[refs[i]].type \notin {"function", "callback"}

\* Device.__init__(com) on heap h: whether it raises, the heap it leaves
\* (the loop writes function_id into the dicts before Packet() can raise),
\* and the Device when it returns
DeviceInit(h, c) ==
    LET refs == c.packets
        bad  == FirstRaising(h, refs)
        k    == IF bad = 0 THEN Len(refs) ELSE bad
        h2   == AssignIds(h, refs, k)
        all  == [i \in 1..Len(refs) |-> Packet(refs[i], h2[refs[i]])]
        rs   == bad # 0 \/ InvalidType(h2, refs)
    IN  [raised |-> rs,
         heap   |-> h2,
         device |->
            IF rs THEN [all_packets |-> <<>>, function_packets |-> <<>>,
                        callback_packets |-> <<>>]
            ELSE [all_packets      |-> all,
                  function_packets |->
                      SelectSeq(all, LAMBDA p : get_type(h2, p) = "function"),
                  callback_packets |->
                      SelectSeq(all, LAMBDA p : get_type(h2, p) = "callback")]]

get_packets(d, typ) ==
    CASE typ = "all"      -> d.all_packets
      [] typ = "function" -> d.function_packets
      [] typ = "callback" -> d.callback_packets

\* a count of all packets
get_callback_count_all(d) == Len(d.all_packets)

get_callback_count(d) == Len(d.callback_packets)

-----------------------------------------------------------------------------
(* java/generate_java_bindings.py: tables and wire layout of a Device *)

\* bytes moved by one bb.put<Suffix>/bb.get<Suffix> of the storage type of typ
java_byte_buffer_width(typ) ==
    CASE typ \in {"int8","uint8","bool","char","string"} -> 1
      [] typ \in {"int16","uint16"} -> 2
      [] typ \in {"int32","uint32","float"} -> 4
      [] typ \in {"int64","uint64"} -> 8

\* packet.get_type().upper() on the type names of the inputs
upper_type(typ) ==
    CASE typ = "function" -> "FUNCTION"
      [] typ = "callback" -> "CALLBACK"
      [] typ = "event"    -> "EVENT"

\* a responseExpected table that treats callbacks like functions
get_java_response_expected_by_elements(h, d) ==
    LET ps == get_packets(d, "function") \o get_packets(d, "callback")
    IN  [i \in 1..Len(ps) |->
            [constant |-> <<upper_type(get_type(h, ps[i])), get_upper_case_name(h, ps[i])>>,
             setto    |-> IF Len(get_elements(ps[i], "out")) > 0
                          THEN "RESPONSE_EXPECTED_FLAG_ALWAYS_TRUE"
                          ELSE IF get_doc(h, ps[i])[1] = "ccf"
                          THEN "RESPONSE_EXPECTED_FLAG_TRUE"
                          ELSE "RESPONSE_EXPECTED_FLAG_FALSE"]]

\* one line of the responseExpected table
get_java_response_expected(h, d) ==
    LET fs == get_packets(d, "function")
        cs == get_packets(d, "callback")
    IN  [i \in 1..Len(fs) |->
            [constant |-> <<"FUNCTION", get_upper_case_name(h, fs[i])>>,
             setto    |-> IF Len(get_elements(fs[i], "out")) > 0
                          THEN "RESPONSE_EXPECTED_FLAG_ALWAYS_TRUE"
                          ELSE IF get_doc(h, fs[i])[1] = "ccf"
                          THEN "RESPONSE_EXPECTED_FLAG_TRUE"
                          ELSE "RESPONSE_EXPECTED_FLAG_FALSE"]]
        \o
        [i \in 1..Len(cs) |->
            [constant |-> <<"CALLBACK", get_upper_case_name(h, cs[i])>>,
             setto    |-> "RESPONSE_EXPECTED_FLAG_ALWAYS_FALSE"]]

\* an identifier table that names every constant FUNCTION_<NAME>
get_java_function_id_definitions_as_functions(h, d) ==
    LET ps == get_packets(d, "all")
    IN  [i \in 1..Len(ps) |->
            [constant |-> <<"FUNCTION", get_upper_case_name(h, ps[i])>>,
             value    |-> get_function_id(h, ps[i])]]

get_java_function_id_definitions(h, d) ==
    LET ps == get_packets(d, "all")
    IN  [i \in 1..Len(ps) |->
            [constant |-> <<upper_type(get_type(h, ps[i])), get_upper_case_name(h, ps[i])>>,
             value    |-> get_function_id(h, ps[i])]]

\* number of bb.put calls the emitted method executes for an in-element:
\* the loop runs cardinality times when cardinality > 1, else one put
java_put_count(element) == IF element[3] > 1 THEN element[3] ELSE 1

\* bytes IPConnection.string(bb, length) takes from the buffer
ipconnection_string_bytes(length) == length

\* number of payload bytes the emitted unpack code reads for an out-element:
\* IPConnection.string(bb, cardinality) for a string, a loop of cardinality
\* gets for an array, else one get
java_get_bytes(element) ==
    IF element[2] = "string" THEN ipconnection_string_bytes(element[3])
    ELSE (IF element[3] > 1 THEN element[3] ELSE 1) * java_byte_buffer_width(element[2])

java_put_bytes(element) ==
    java_put_count(element) * java_byte_buffer_width(element[2])

RECURSIVE byte_buffer_layout(_, _, _)
\* a ByteBuffer is written/read front to back: each access starts at the
\* position the one before it left (positions counted from the payload start)
byte_buffer_layout(elements, bytes, position) ==
    IF elements = <<>> THEN <<>>
    ELSE <<[element     |-> Head(elements),
            byte_offset |-> position,
            byte_length |-> bytes[1]]>>
         \o byte_buffer_layout(Tail(elements), Tail(bytes), position + bytes[1])

\* the bbputs of one method of get_java_methods, as the layout they write
java_bbputs(p) ==
    LET es == get_elements(p, "in")
    IN  byte_buffer_layout(es, [i \in 1..Len(es) |-> java_put_bytes(es[i])], 0)

\* the bbgets of get_java_bbgets, as the layout they read
get_java_bbgets(p) ==
    LET es == get_elements(p, "out")
    IN  byte_buffer_layout(es, [i \in 1..Len(es) |-> java_get_bytes(es[i])], 0)

RECURSIVE Concat(_)
\* the bytes of consecutive writes, in the order written
Concat(seqs) == IF seqs = <<>> THEN <<>> ELSE Head(seqs) \o Concat(Tail(seqs))

\* the w bytes bb.put<Suffix> writes for the integer n after the cast to the
\* storage type: the low w bytes of its two's complement, least significant first
little_endian(n, w) == [i \in 1..w |-> (n \div (256 ^ (i - 1))) % 256]

\* the signed integer bb.get<Suffix>() returns for these little-endian bytes
signed_value(bytes) ==
    LET w    == Len(bytes)
        bits == SumSeq([i \in 1..w |-> bytes[i] * (256 ^ (i - 1))])
    IN  IF bits >= (256 ^ w) \div 2 THEN bits - (256 ^ w) ELSE bits

\* IPConnection.unsignedByte / unsignedShort: the value of the same bits read
\* as an unsigned integer of w bytes
ipconnection_unsigned(v, w) == v % (256 ^ w)

\* IPConnection.string(bb, length): the String of the next length bytes
ipconnection_string(bytes, length) == [i \in 1..length |-> bytes[i]]

\* what the bbput statement(s) emitted for one in-element do with the
\* argument: the bytes written, or compiles = FALSE when the statement is no
\* Java (a bool array gets '(name ? 1 : 0)[i]', a String that is not in the
\* charAt loop is handed to bb.put itself)
java_bbput(element, value) ==
    LET typ    == element[2]
        card   == element[3]
        w      == java_byte_buffer_width(typ)
        one(v) == little_endian(v, w)
    IN  IF card > 1
        THEN IF typ = "string"
             THEN [compiles |-> TRUE,
                   bytes    |-> [i \in 1..card |->
                                    IF i <= Len(value) THEN value[i] % 256 ELSE 0]]
             ELSE IF typ = "bool"
             THEN [compiles |-> FALSE, bytes |-> <<>>]
             ELSE [compiles |-> TRUE,
                   bytes    |-> Concat([i \in 1..card |-> one(value[i])])]
        ELSE IF typ = "string"
             THEN [compiles |-> FALSE, bytes |-> <<>>]
             ELSE IF typ = "bool"
             THEN [compiles |-> TRUE, bytes |-> one(IF value THEN 1 ELSE 0)]
             ELSE [compiles |-> TRUE, bytes |-> one(value)]

\* the value the bbget statement(s) emitted for one out-element build from
\* the bytes they read
java_bbget(element, bytes) ==
    LET typ     == element[2]
        card    == element[3]
        w       == java_byte_buffer_width(typ)
        one(bs) == CASE typ \in {"uint8", "uint16", "uint32"} ->
                            ipconnection_unsigned(signed_value(bs), w)
                     [] typ = "bool" -> signed_value(bs) # 0
                     [] typ = "char" -> signed_value(bs) % 65536
                     [] OTHER -> signed_value(bs)
    IN  IF typ = "string" THEN ipconnection_string(bytes, card)
        ELSE IF card > 1
        THEN [i \in 1..card |-> one(SubSeq(bytes, (i - 1) * w + 1, i * w))]
        ELSE one(bytes)

\* the bbputs of the method emitted for packet p, executed on the arguments
java_pack_request(p, args) ==
    LET es   == get_elements(p, "in")
        puts == [k \in 1..Len(es) |-> java_bbput(es[k], args[k])]
    IN  [compiles |-> \A k \in 1..Len(es) : puts[k].compiles,
         payload  |-> Concat([k \in 1..Len(es) |-> puts[k].bytes])]

\* the bbgets emitted for packet p, executed on a response payload
java_unpack_response(p, payload) ==
    LET lay == get_java_bbgets(p)
    IN  [k \in 1..Len(lay) |->
            java_bbget(lay[k].element,
                       SubSeq(payload, lay[k].byte_offset + 1,
                              lay[k].byte_offset + lay[k].byte_length))]

get_java_methods(h, d) ==
    LET fs == get_packets(d, "function")
    IN  [i \in 1..Len(fs) |->
            [name   |-> get_upper_case_name(h, fs[i]),
             size   |-> get_request_length(fs[i]),
             bbputs |-> java_bbputs(fs[i]),
             bbgets |-> IF Len(get_elements(fs[i], "out")) = 0 THEN <<>>
                        ELSE get_java_bbgets(fs[i])]]

get_java_callback_listener_definitions(h, d) ==
    LET cs == get_packets(d, "callback")
    IN  [i \in 1..Len(cs) |->
            [name      |-> get_upper_case_name(h, cs[i]),
             \* the arguments of listener.<name>(...): one per element of
             \* packet.get_elements(), whatever its direction
             parameter |-> [k \in 1..Len(get_elements(cs[i], "all")) |->
                               get_elements(cs[i], "all")[k][1]],
             bbgets    |-> IF Len(get_elements(cs[i], "out")) > 0
                           THEN get_java_bbgets(cs[i]) ELSE <<>>]]

\* the header of the file: the generator notice with today's date
get_java_import == [date |-> Days[today]]

get_java_source(h, d) ==
    [import            |-> get_java_import,
     function_ids      |-> get_java_function_id_definitions(h, d),
     response_expected |-> get_java_response_expected(h, d),
     callbacks         |-> get_java_callback_listener_definitions(h, d),
     methods           |-> get_java_methods(h, d)]

\* get_java_bbgets raises: with no out-element its loop body never runs and
\* 'return bbgets, bbret' reads the unbound local bbret
get_java_bbgets_raises(p) == Len(get_elements(p, "out")) = 0

\* get_java_methods raises: it asks every function packet for its request
\* size, which looks every in-element type up in the table, and calls
\* get_java_bbgets unless the packet has no out-element
get_java_methods_raises(d) ==
    \E i \in 1..Len(get_packets(d, "function")) :
        LET p == get_packets(d, "function")[i]
        IN  \/ get_request_length_raises(p)
            \/ Len(get_elements(p, "out")) # 0 /\ get_java_bbgets_raises(p)

\* get_java_callback_listener_definitions raises: it calls get_java_bbgets
\* when the callback has an out-element
get_java_callback_listener_definitions_raises(d) ==
    \E i \in 1..Len(get_packets(d, "callback")) :
        LET p == get_packets(d, "callback")[i]
        IN  Len(get_elements(p, "out")) > 0 /\ get_java_bbgets_raises(p)

get_java_source_raises(d) ==
    get_java_callback_listener_definitions_raises(d) \/ get_java_methods_raises(d)

\* JavaBindingsGenerator.generate(device): open(..., 'wb') creates or empties
\* the file, and only then device.get_java_source() is evaluated and written
java_generate(h, d) ==
    [opened |-> TRUE,
     raised |-> get_java_source_raises(d),
     source |-> IF get_java_source_raises(d) THEN <<>> ELSE get_java_source(h, d)]

\* the make_files callback: build the Device from com, then let the backend
\* write its source
MakeFiles(h, c) ==
    LET r == DeviceInit(h, c)
        g == java_generate(r.heap, r.device)
    IN  [raised |-> r.raised \/ g.raised,
         heap   |-> r.heap,
         device |-> r.device,
         opened |-> ~r.raised /\ g.opened,
         source |-> IF r.raised THEN <<>> ELSE g.source]

-----------------------------------------------------------------------------
(* The inputs: files of configs/ and the dicts the config modules build *)

CommonFile  == <<"b","r","i","c","k","_","c","o","m","m","o","n","c","o","n","f","i","g",".","p","y">>
BrickMFile  == <<"b","r","i","c","k","_","m","_","c","o","n","f","i","g",".","p","y">>
BrickSFile  == <<"b","r","i","c","k","_","s","_","c","o","n","f","i","g",".","p","y">>
PiezoFile   == <<"b","r","i","c","k","l","e","t","_","p","i","e","z","o","_","s","p","e","a","k","e","r","_","c","o","n","f","i","g",".","p","y">>
PycFile     == <<"b","r","i","c","k","_","m","_","c","o","n","f","i","g",".","p","y","c">>
SingleFile  == <<"b","r","i","c","k","l","e","t","_","t","_","c","o","n","f","i","g",".","p","y">>

ConfigSuffix == <<"_","c","o","n","f","i","g",".","p","y">>
BrickMarker  == <<"b","r","i","c","k","_">>

\* packets of configs/bricklet_piezo_speaker_config.py
PiezoPackets ==
    <<[type |-> "function",
       name |-> <<<<"B","e","e","p">>,
                  <<"b","e","e","p">>>>,
       elements |-> << <<"duration", "uint32", 1, "in">>,
                       <<"frequency", "uint16", 1, "in">> >>,
       doc |-> <<"bf">>],
      [type |-> "function",
       name |-> <<<<"M","o","r","s","e","C","o","d","e">>,
                  <<"m","o","r","s","e","_","c","o","d","e">>>>,
       elements |-> << <<"morse", "string", 60, "in">>,
                       <<"frequency", "uint16", 1, "in">> >>,
       doc |-> <<"bf">>],
      [type |-> "callback",
       name |-> <<<<"B","e","e","p","F","i","n","i","s","h","e","d">>,
                  <<"b","e","e","p","_","f","i","n","i","s","h","e","d">>>>,
       elements |-> <<>>,
       doc |-> <<"c">>],
      [type |-> "callback",
       name |-> <<<<"M","o","r","s","e","C","o","d","e","F","i","n","i","s","h","e","d">>,
                  <<"m","o","r","s","e","_","c","o","d","e","_","f","i","n","i","s","h","e","d">>>>,
       elements |-> <<>>,
       doc |-> <<"c">>]>>

\* packet dicts the generated brick configurations are drawn from
GoodFunction ==
    [type |-> "function", name |-> <<<<"G","e","t">>, <<"g","e","t">>>>,
     elements |-> << <<"value", "uint16", 1, "out">> >>, doc |-> <<"af">>]
GoodSetter ==
    [type |-> "function", name |-> <<<<"S","e","t","X">>, <<"s","e","t","_","x">>>>,
     elements |-> << <<"x", "uint8", 1, "in">> >>, doc |-> <<"ccf">>]
GoodCallback ==
    [type |-> "callback", name |-> <<<<"O","n">>, <<"o","n">>>>,
     elements |-> << <<"value", "uint8", 1, "out">> >>, doc |-> <<"c">>]
ExplicitId1 == ("function_id" :> 1) @@ GoodSetter
ExplicitId2 == ("function_id" :> 2) @@ GoodFunction
BadName ==
    [type |-> "function", name |-> <<<<"S","e","t","X">>, <<"s","e","t","y">>>>,
     elements |-> <<>>, doc |-> <<"bf">>]
BadType ==
    [type |-> "event", name |-> <<<<"O","n">>, <<"o","n">>>>,
     elements |-> <<>>, doc |-> <<"c">>]

BrickMPool == {GoodFunction, ExplicitId1, BadName, BadType}
BrickSPool == {GoodSetter}
CommonPool == {GoodFunction, ExplicitId2}

\* single packets: every name pair over a small alphabet, every small
\* element list, every packet type with every doc tag, in-elements of
\* types the table of get_type_size does not hold, and cardinalities below 1
DisplayNames == SeqsUpTo({"A", "b", "_"}, 2) \ {<<>>}
WireNames    == SeqsUpTo({"a", "b", "_", "A"}, 3) \ {<<>>}
ElementTypes == {"uint8", "uint32", "string"}
Directions   == {"in", "out", "inout"}
\* every type and cardinality from 1 in both directions, and one element of
\* every other direction
Elements     ==
    {<<"e", t, n, d>> : t \in ElementTypes, n \in 1..MaxCard, d \in {"in", "out"}}
    \cup {<<"e", "uint8", 1, d>> : d \in Directions \ {"in", "out"}}
OtherTypes   == {"float32", "int"}
PacketTypes  == {"function", "callback", "event"}
DocTags      == {"bf", "ccf", "c"}
GoodName     == <<<<"A","b">>, <<"a","_","b">>>>

SinglePackets ==
    {[type |-> "function", name |-> <<dn, wn>>,
      elements |-> << <<"e", "uint8", 1, "in">> >>, doc |-> <<"bf">>] :
        dn \in DisplayNames, wn \in WireNames}
    \cup
    {[type |-> "function", name |-> GoodName, elements |-> es, doc |-> <<"bf">>] :
        es \in SeqsUpTo(Elements, MaxElems)}
    \cup
    {[type |-> ty, name |-> GoodName, elements |-> es, doc |-> <<tag>>] :
        ty \in PacketTypes, tag \in DocTags,
        es \in {<<>>, << <<"e", "uint16", 1, "in">> >>,
                << <<"e", "uint8", 1, "out">> >>}}
    \cup
    {[type |-> "function", name |-> GoodName,
      elements |-> << <<"e", t, 1, "in">> >>, doc |-> <<"bf">>] : t \in OtherTypes}
    \cup
    {[type |-> "function", name |-> GoodName,
      elements |-> << <<"e", t, n, d>> >>, doc |-> <<"bf">>] :
        t \in {"uint8", "uint16"}, n \in {-1, 0}, d \in {"in", "out"}}

Refs(prefix, n) == [i \in 1..n |-> <<prefix, i>>]

\* the heap holding the dicts of the sequence ps under references prefix/i
Alloc(prefix, ps) == [r \in {<<prefix, i>> : i \in 1..Len(ps)} |-> ps[r[2]]]

NoCall == [file |-> <<>>, before |-> <<>>, raised |-> FALSE]

\* the call record before anything was called
NoArgs == [op |-> "none", stage |-> "args", typ |-> "", elements |-> <<>>,
           args |-> <<>>, raised |-> FALSE, payload |-> <<>>, result |-> <<>>]

\* per packet of the list refs: {} when the dict has no 'function_id' key,
\* else the set holding its value
IdsOf(h, refs) ==
    [i \in 1..Len(refs) |->
        IF "function_id" \in DOMAIN h[refs[i]]
        THEN {h[refs[i]].function_id} ELSE {}]

IsConfig(f) == EndsWith(f, ConfigSuffix)

\* two bricks with drawn packets and the common packets
BatchInit ==
    \E m \in SeqsUpTo(BrickMPool, MaxPackets),
       s \in SeqsUpTo(BrickSPool, MaxPackets),
       c \in SeqsUpTo(CommonPool, MaxCommon) :
        /\ files = {CommonFile, BrickMFile, BrickSFile}
        /\ heap = Alloc("m", m) @@ Alloc("s", s) @@ Alloc("c", c)
        /\ com = (BrickMFile :> [packets |-> Refs("m", Len(m))])
                 @@ (BrickSFile :> [packets |-> Refs("s", Len(s))])
        /\ common = Refs("c", Len(c))

\* the bricklet of configs/ beside one brick, the common packets and a
\* stray .pyc
PiezoInit ==
    \E c \in SeqsUpTo(CommonPool, MaxCommon) :
        /\ files = {CommonFile, BrickMFile, PiezoFile, PycFile}
        /\ heap = Alloc("m", <<GoodCallback>>) @@ Alloc("c", c)
                  @@ Alloc("p", PiezoPackets)
        /\ com = (BrickMFile :> [packets |-> Refs("m", 1)])
                 @@ (PiezoFile :> [packets |-> Refs("p", Len(PiezoPackets))])
        /\ common = Refs("c", Len(c))

\* one bricklet with one drawn packet and no brick_commonconfig.py
SingleInit ==
    \E p \in SinglePackets :
        /\ files = {SingleFile}
        /\ heap = Alloc("t", <<p>>)
        /\ com = (SingleFile :> [packets |-> Refs("t", 1)])
        /\ common = <<>>

Init ==
    /\ BatchInit \/ PiezoInit \/ SingleInit
    /\ declared = heap
    /\ pc = "idle"
    /\ todo = {}
    /\ runs = 0
    /\ status = [f \in DOMAIN com |-> "Unloaded"]
    /\ devices = <<>>
    /\ output = <<>>
    /\ last = NoCall
    /\ opened = {}
    /\ call = NoArgs
    /\ today = 1
    /\ previous = <<>>

-----------------------------------------------------------------------------
(* common.py: generate *)

\* the local common_packets of generate(): the list of the module
\* brick_commonconfig when configs.remove finds the file, else []
common_packets == IF CommonFile \in files THEN common ELSE <<>>

\* lines 209-220: list configs/, take brick_commonconfig.py out, enter the loop
StartGenerate ==
    /\ pc \in {"idle", "done", "raised"}
    /\ runs < MaxRuns
    /\ runs' = runs + 1
    /\ todo' = files \ {CommonFile}
    /\ pc' = "loop"
    /\ status' = [f \in DOMAIN com |-> "Unloaded"]
    /\ devices' = <<>>
    /\ output' = <<>>
    /\ last' = NoCall
    /\ opened' = {}
    /\ previous' = output
    /\ UNCHANGED <<files, declared, heap, com, common, call, today>>

\* one iteration of the for loop on a file that is no *_config.py
SkipFile(f) ==
    /\ pc = "loop"
    /\ f \in todo
    /\ ~IsConfig(f)
    /\ todo' = todo \ {f}
    /\ UNCHANGED <<files, declared, heap, com, common, pc, runs, status, devices, output, last, opened, call, today, previous>>

\* a merge for every file name that holds 'brick', bricklets included
MergeCommonForBricklets(f, c) ==
    IF Contains(f, <<"b","r","i","c","k">>) /\ "common_included" \notin DOMAIN c
    THEN ("common_included" :> TRUE) @@ [c EXCEPT !.packets = @ \o common_packets]
    ELSE c

\* a merge that does not look at the 'common_included' flag
MergeCommonEveryRun(f, c) ==
    IF Contains(f, BrickMarker)
    THEN ("common_included" :> TRUE) @@ [c EXCEPT !.packets = @ \o common_packets]
    ELSE c

\* lines 226-228: the merge of the common packets into module.com
MergeCommon(f, c) ==
    IF Contains(f, BrickMarker) /\ "common_included" \notin DOMAIN c
    THEN ("common_included" :> TRUE) @@ [c EXCEPT !.packets = @ \o common_packets]
    ELSE c

\* one iteration of the for loop on a config file: merge, then make_files;
\* an exception of make_files leaves generate() and ends the loop
ProcessConfig(f) ==
    /\ pc = "loop"
    /\ f \in todo
    /\ IsConfig(f)
    /\ LET c == MergeCommon(f, com[f])
           r == MakeFiles(heap, c)
       IN  /\ com' = [com EXCEPT ![f] = c]
           /\ heap' = r.heap
           /\ last' = [file |-> f, before |-> IdsOf(heap, c.packets),
                       raised |-> r.raised]
           /\ todo' = todo \ {f}
           /\ opened' = IF r.opened THEN opened \cup {f} ELSE opened
           /\ IF r.raised
              THEN /\ pc' = "raised"
                   /\ status' = [status EXCEPT ![f] = "Failed"]
                   /\ UNCHANGED <<devices, output>>
              ELSE /\ pc' = pc
                   /\ status' = [status EXCEPT ![f] = "Emitted"]
                   /\ devices' = (f :> r.device) @@ devices
                   /\ output' = (f :> r.source) @@ output
    /\ UNCHANGED <<files, declared, common, runs, call, today, previous>>

\* the for loop is exhausted: generate() returns
FinishGenerate ==
    /\ pc = "loop"
    /\ todo = {}
    /\ pc' = "done"
    /\ UNCHANGED <<files, declared, heap, com, common, todo, runs, status, devices, output, last, opened, call, today, previous>>

Next ==
    \/ StartGenerate
    \/ \E f \in todo : SkipFile(f)
    \/ \E f \in todo : ProcessConfig(f)
    \/ FinishGenerate

Spec == Init /\ [][Next]_vars

\* the clock passes midnight
Midnight ==
    /\ today < Len(Days)
    /\ today' = today + 1
    /\ UNCHANGED <<files, declared, heap, com, common, pc, todo, runs, status, devices, output, last, opened, call, previous>>

DayNext == Next \/ Midnight

\* the same process when its runs are not all on one day
DaySpec == Init /\ [][DayNext]_vars

-----------------------------------------------------------------------------
(* Single calls: get_type_size on a type name, and the code emitted for one *)
(* element list executed on argument values                                 *)

TypeNames == DOMAIN types \cup OtherTypes \cup {"String", ""}

\* element types whose values fit the integers of the model
CodecTypes == {"int8", "uint8", "int16", "uint16", "bool", "char", "string"}

\* argument values of one item of a type (characters as their code)
JavaValues(typ) ==
    CASE typ = "bool"   -> BOOLEAN
      [] typ = "int8"   -> {-3, 100}
      [] typ = "uint8"  -> {0, 200}
      [] typ = "int16"  -> {-300, 300}
      [] typ = "uint16" -> {7, 40000}
      [] typ = "char"   -> {65, 122}

Strings == SeqsUpTo({65, 66}, MaxString)

\* the arguments a caller can hand over for an element
ArgsOf(element) ==
    IF element[2] = "string" THEN Strings
    ELSE IF element[3] > 1 THEN [1..element[3] -> JavaValues(element[2])]
    ELSE JavaValues(element[2])

Follower == <<"f", "uint16", 1, "in">>

CodecElements == {<<"e", t, c, "in">> : t \in CodecTypes, c \in 1..MaxCard}

\* the call of the code emitted for element e followed by n uint16 scalars,
\* with argument a for e
CodecCall(e, a, n) ==
    [NoArgs EXCEPT !.op = "codec",
                   !.elements = <<e>> \o [i \in 1..n |-> Follower],
                   !.args = <<a>> \o [i \in 1..n |-> 40000]]

CallInit ==
    /\ files = {}
    /\ declared = <<>>
    /\ heap = <<>>
    /\ com = <<>>
    /\ common = <<>>
    /\ pc = "idle"
    /\ todo = {}
    /\ runs = 0
    /\ status = <<>>
    /\ devices = <<>>
    /\ output = <<>>
    /\ last = NoCall
    /\ opened = {}
    /\ today = 1
    /\ previous = <<>>
    /\ \/ \E t \in TypeNames :
            call = [NoArgs EXCEPT !.op = "get_type_size", !.typ = t]
       \/ \E e \in CodecElements : \E a \in ArgsOf(e) : \E n \in 0..(MaxArgs - 1) :
            call = CodecCall(e, a, n)

\* get_type_size(typ) returns or raises KeyError
LookupTypeSize ==
    /\ call.op = "get_type_size"
    /\ call.stage = "args"
    /\ call' = IF get_type_size_raises(call.typ)
               THEN [call EXCEPT !.stage = "returned", !.raised = TRUE]
               ELSE [call EXCEPT !.stage = "returned",
                                 !.result = get_type_size(call.typ)]
    /\ UNCHANGED <<files, declared, heap, com, common, pc, todo, runs, status, devices, output, last, opened, today, previous>>

\* the method emitted for the elements as in-elements packs the arguments
\* (when javac accepts it)
PackRequest ==
    /\ call.op = "codec"
    /\ call.stage = "args"
    /\ LET p == Packet(<<"x", 1>>, [elements |-> call.elements])
           r == java_pack_request(p, call.args)
       IN  call' = IF r.compiles
                   THEN [call EXCEPT !.stage = "packed", !.payload = r.payload]
                   ELSE [call EXCEPT !.stage = "rejected"]
    /\ UNCHANGED <<files, declared, heap, com, common, pc, todo, runs, status, devices, output, last, opened, today, previous>>

\* the bbgets emitted for the same elements as out-elements unpack the payload
UnpackResponse ==
    /\ call.op = "codec"
    /\ call.stage = "packed"
    /\ LET outs == [i \in 1..Len(call.elements) |->
                       [call.elements[i] EXCEPT ![4] = "out"]]
           p    == Packet(<<"x", 1>>, [elements |-> outs])
       IN  call' = [call EXCEPT !.stage = "unpacked",
                                !.result = java_unpack_response(p, call.payload)]
    /\ UNCHANGED <<files, declared, heap, com, common, pc, todo, runs, status, devices, output, last, opened, today, previous>>

CallNext == LookupTypeSize \/ PackRequest \/ UnpackResponse

CallSpec == CallInit /\ [][CallNext]_vars

-----------------------------------------------------------------------------
(* The claims *)

\* the width table of the Type Registry
Width(typ) ==
    CASE typ \in {"int8", "uint8", "bool", "char", "string"} -> 1
      [] typ \in {"int16", "uint16"} -> 2
      [] typ \in {"int32", "uint32", "float32"} -> 4
      [] typ \in {"int64", "uint64"} -> 8

RECURSIVE PayloadBytes(_, _)
\* sum of width(type) x cardinality over the elements of one direction
PayloadBytes(elements, direction) ==
    IF elements = <<>> THEN 0
    ELSE (IF Head(elements)[4] = direction
          THEN Width(Head(elements)[2]) * Head(elements)[3] ELSE 0)
         + PayloadBytes(Tail(elements), direction)

PacketsOf(f) == devices[f].all_packets
DictOf(p) == heap[p.packet]
FunctionIds(f) == [i \in 1..Len(PacketsOf(f)) |-> get_function_id(heap, PacketsOf(f)[i])]
Processed(f) == status[f] # "Unloaded"
DictsOf(f) == [i \in 1..Len(com[f].packets) |-> heap[com[f].packets[i]]]

C2_UniqueIds ==
    \A f \in DOMAIN devices : \A i, j \in 1..Len(PacketsOf(f)) :
        i # j => FunctionIds(f)[i] # FunctionIds(f)[j]

C4_ResponseExpected ==
    \A f \in DOMAIN output :
        LET fs    == SelectSeq(PacketsOf(f), LAMBDA p : DictOf(p).type = "function")
            cs    == SelectSeq(PacketsOf(f), LAMBDA p : DictOf(p).type = "callback")
            table == output[f].response_expected
            HasOut(p) == \E k \in 1..Len(DictOf(p).elements) :
                            DictOf(p).elements[k][4] = "out"
        IN  /\ Len(table) = Len(fs) + Len(cs)
            /\ \A i \in 1..Len(fs) :
                table[i].setto =
                    IF HasOut(fs[i]) THEN "RESPONSE_EXPECTED_FLAG_ALWAYS_TRUE"
                    ELSE IF DictOf(fs[i]).doc[1] = "ccf"
                         THEN "RESPONSE_EXPECTED_FLAG_TRUE"
                         ELSE "RESPONSE_EXPECTED_FLAG_FALSE"
            /\ \A i \in 1..Len(cs) :
                table[Len(fs) + i].setto = "RESPONSE_EXPECTED_FLAG_ALWAYS_FALSE"

C4_Witness ==
    \E f \in DOMAIN output : \E i \in 1..Len(output[f].response_expected) :
        /\ output[f].response_expected[i].setto = "RESPONSE_EXPECTED_FLAG_ALWAYS_FALSE"
        /\ \E k \in 1..Len(PacketsOf(f)) :
            /\ DictOf(PacketsOf(f)[k]).type = "callback"
            /\ Len(PacketsOf(f)[k].out_elements) > 0

\* C5: the merge is idempotent: once a brick configuration is marked
\* 'common_included', in every later state of the process (so after a second
\* generate() as after the first) its packet list is its own packets followed
\* by the common packets, each common packet once.
C5_MergeOnce ==
    \A f \in DOMAIN com :
        "common_included" \in DOMAIN com[f] =>
            /\ com[f].packets =
                   SelectSeq(com[f].packets, LAMBDA r : r[1] # "c") \o common_packets
            /\ \A k \in 1..Len(common_packets) :
                   Cardinality({i \in 1..Len(com[f].packets) :
                                   com[f].packets[i] = common_packets[k]}) = 1

C5_Witness ==
    /\ runs = 2
    /\ pc = "done"
    /\ Len(common_packets) = 1
    /\ \E f \in DOMAIN com :
        /\ "common_included" \in DOMAIN com[f]
        /\ status[f] = "Emitted"
        /\ Len(com[f].packets) = 3

\* C6: when generate() has ended, every configuration of the batch has been
\* processed: it is Emitted or Failed, whichever device failed.
C6_Isolation ==
    pc \in {"done", "raised"} => \A f \in DOMAIN com : Processed(f)

\* C7: the function_ids of a constructed Device are those its own
\* configuration and the common packets determine: for each packet the
\* declared function_id, or its position when none is declared, whatever was
\* processed before.
C7_OrderIndependent ==
    \A f \in DOMAIN devices : \A i \in 1..Len(PacketsOf(f)) :
        LET r == PacketsOf(f)[i].packet
        IN  FunctionIds(f)[i] =
                IF "function_id" \in DOMAIN declared[r]
                THEN declared[r].function_id ELSE i

\* C8: a configuration that has been processed and holds a packet whose
\* lower-cased display name differs from its wire name without underscores
\* has Failed and has no Device.
C8_NameCheck ==
    \A f \in DOMAIN com :
        (/\ Processed(f)
         /\ \E i \in 1..Len(DictsOf(f)) :
                Lower(DictsOf(f)[i].name[1]) # RemoveChar(DictsOf(f)[i].name[2], "_"))
        => (status[f] = "Failed" /\ f \notin DOMAIN devices)

C8_Witness ==
    \E f \in DOMAIN com :
        /\ status[f] = "Failed"
        /\ DictsOf(f)[1].name = << <<"A", "b">>, <<"A", "_", "b">> >>

\* C9: a configuration that has been processed and holds an element whose
\* direction is neither in nor out, or a packet whose type is neither
\* function nor callback, has Failed and has no Device.
C9_Validation ==
    \A f \in DOMAIN com :
        (/\ Processed(f)
         /\ \E i \in 1..Len(DictsOf(f)) :
                \/ DictsOf(f)[i].type \notin {"function", "callback"}
                \/ \E k \in 1..Len(DictsOf(f)[i].elements) :
                        DictsOf(f)[i].elements[k][4] \notin {"in", "out"})
        => (status[f] = "Failed" /\ f \notin DOMAIN devices)

C9_Witness ==
    \E f \in DOMAIN com :
        /\ status[f] = "Failed"
        /\ Len(DictsOf(f)) = 1
        /\ DictsOf(f)[1].type = "event"
        /\ DictsOf(f)[1].name = GoodName
        /\ DictsOf(f)[1].elements = << <<"e", "uint8", 1, "out">> >>

\* C10: in every emitted method the byte offset of each in-element is the
\* sum of width x cardinality of the in-elements before it, and the offset
\* plus length of the last one is the request length minus the 4-byte header.
C10_BytePacked ==
    \A f \in DOMAIN output : \A j \in 1..Len(output[f].methods) :
        LET m   == output[f].methods[j]
            lay == m.bbputs
            ins == [k \in 1..Len(lay) |-> lay[k].element]
        IN  /\ \A k \in 1..Len(lay) :
                lay[k].byte_offset = PayloadBytes(SubSeq(ins, 1, k - 1), "in")
            /\ Len(lay) > 0 =>
                lay[Len(lay)].byte_offset + lay[Len(lay)].byte_length = m.size - 4

\* C11: in every emitted method the pack code writes, for each in-element in
\* declaration order, exactly width x cardinality bytes, and the bytes written
\* for all in-elements together are the request size handed to
\* createRequestPacket minus the 4-byte header.
C11_PackBytes ==
    \A f \in DOMAIN output : \A j \in 1..Len(output[f].methods) :
        LET m   == output[f].methods[j]
            lay == m.bbputs
            p   == devices[f].function_packets[j]
        IN  /\ [k \in 1..Len(lay) |-> lay[k].element] =
                   SelectSeq(DictOf(p).elements, LAMBDA e : e[4] = "in")
            /\ \A k \in 1..Len(lay) :
                lay[k].byte_length = Width(lay[k].element[2]) * lay[k].element[3]
            /\ SumSeq([k \in 1..Len(lay) |-> lay[k].byte_length]) = m.size - 4

\* what the round-trip law promises for an argument: a String cut or
\* zero-padded to the cardinality, every other value itself
RoundTripValue(element, arg) ==
    IF element[2] = "string"
    THEN [i \in 1..element[3] |-> IF i <= Len(arg) THEN arg[i] ELSE 0]
    ELSE arg

\* C12: the code emitted for an element list packs every argument list and,
\* unpacking the payload for the same elements, returns the arguments: arrays
\* and scalars unchanged, a String cut or zero-padded to its cardinality.
C12_RoundTrip ==
    (call.op = "codec" /\ call.stage \in {"rejected", "unpacked"}) =>
        /\ call.stage = "unpacked"
        /\ call.result = [k \in 1..Len(call.elements) |->
                             RoundTripValue(call.elements[k], call.args[k])]

\* the width table with the 4-byte floating point type under the name 'float'
WidthFloat(typ) == IF typ = "float" THEN Width("float32") ELSE Width(typ)

ClosedTypes == {"int8", "uint8", "bool", "char", "string", "int16", "uint16",
                "int32", "uint32", "float32", "int64", "uint64"}

Returned == call.op = "get_type_size" /\ call.stage = "returned"

DuplicateIds(f) ==
    \E i, j \in 1..Len(DictsOf(f)) :
        /\ i # j
        /\ "function_id" \in DOMAIN DictsOf(f)[i]
        /\ "function_id" \in DOMAIN DictsOf(f)[j]
        /\ DictsOf(f)[i].function_id = DictsOf(f)[j].function_id

\* the configuration meets one of the error conditions of the schema
Malformed(f) ==
    \/ DuplicateIds(f)
    \/ \E i \in 1..Len(DictsOf(f)) :
        LET d == DictsOf(f)[i]
        IN  \/ Lower(d.name[1]) # RemoveChar(d.name[2], "_")
            \/ d.type \notin {"function", "callback"}
            \/ \E k \in 1..Len(d.elements) :
                \/ d.elements[k][4] \notin {"in", "out"}
                \/ d.elements[k][2] \notin ClosedTypes

\* C14: for a processed configuration that meets an error condition (name
\* mismatch, invalid direction, invalid packet type, duplicate function_id,
\* element type outside the closed set) no output file has been opened and
\* no source has been emitted.
C14_NoOutput ==
    \A f \in DOMAIN com :
        (Processed(f) /\ Malformed(f)) => (f \notin opened /\ f \notin DOMAIN output)

\* C15: identifiers are assigned only after the whole device passed
\* validation: when the latest Device(com) call failed, no packet of that
\* configuration got a function_id from it (each packet has the key exactly
\* when it had it before the call), and the device is Failed with no output.
C15_NoIdBeforeValidation ==
    (last.file # <<>> /\ last.raised) =>
        /\ status[last.file] = "Failed"
        /\ last.file \notin DOMAIN output
        /\ IdsOf(heap, com[last.file].packets) = last.before

\* C16: constructing a Device leaves its input alone: every packet dict has,
\* in every state of the process, exactly the keys and values the
\* configuration module gave it.
C16_InputUnchanged ==
    \A r \in DOMAIN heap : heap[r] = declared[r]

\* C17: a device that two generate() calls over the same configuration files
\* both emitted got the same text from both, whenever the calls ran.
C17_Deterministic ==
    \A f \in DOMAIN output :
        f \in DOMAIN previous => output[f] = previous[f]

\* C18: every element of every Packet of a constructed Device has a
\* cardinality of at least 1, and the request and response lengths of the
\* Packet are at least the 4 bytes of the header.
C18_Cardinality ==
    \A f \in DOMAIN devices : \A i \in 1..Len(PacketsOf(f)) :
        LET p == PacketsOf(f)[i]
        IN  /\ \A k \in 1..Len(get_elements(p, "all")) :
                get_elements(p, "all")[k][3] >= 1
            /\ get_request_length(p) >= 4
            /\ get_response_length(p) >= 4

\* sub is the sub-sequence of s at exactly the positions with Test, in order:
\* its k-th item is the item of s at the k-th smallest such position
IsStableSelection(sub, s, Test(_)) ==
    LET at == {k \in 1..Len(s) : Test(s[k])}
    IN  /\ Len(sub) = Cardinality(at)
        /\ \A k \in at : sub[Cardinality({j \in at : j < k}) + 1] = s[k]

\* C19: for every Packet of a constructed Device, get_elements('in') is the
\* elements with direction 'in' at their declared positions in order,
\* get_elements('out') the same for 'out', and the two lengths add up to the
\* number of elements.
C19_ElementPartition ==
    \A f \in DOMAIN devices : \A i \in 1..Len(PacketsOf(f)) :
        LET p   == PacketsOf(f)[i]
            all == DictOf(p).elements
        IN  /\ get_elements(p, "all") = all
            /\ IsStableSelection(get_elements(p, "in"), all, LAMBDA e : e[4] = "in")
            /\ IsStableSelection(get_elements(p, "out"), all, LAMBDA e : e[4] = "out")
            /\ Len(get_elements(p, "in")) + Len(get_elements(p, "out")) = Len(all)

C19_Witness ==
    \E f \in DOMAIN devices :
        /\ Len(PacketsOf(f)) = 1
        /\ get_elements(PacketsOf(f)[1], "in") =
               << <<"e", "uint8", 1, "in">>, <<"e", "string", 2, "in">> >>
        /\ get_elements(PacketsOf(f)[1], "out") = <<>>

\* C20: for every constructed Device, get_packets('function') is the packets
\* of type function at their declared positions in order,
\* get_packets('callback') the same for callback, every packet is in one of
\* the two, and get_callback_count() is the number of callback packets.
C20_PacketPartition ==
    \A f \in DOMAIN devices :
        LET d   == devices[f]
            all == get_packets(d, "all")
        IN  /\ IsStableSelection(get_packets(d, "function"), all,
                                 LAMBDA p : DictOf(p).type = "function")
            /\ IsStableSelection(get_packets(d, "callback"), all,
                                 LAMBDA p : DictOf(p).type = "callback")
            /\ Len(get_packets(d, "function")) + Len(get_packets(d, "callback")) = Len(all)
            /\ get_callback_count(d) =
                   Cardinality({k \in 1..Len(all) : DictOf(all[k]).type = "callback"})

C20_Witness ==
    /\ PiezoFile \in DOMAIN devices
    /\ Len(get_packets(devices[PiezoFile], "all")) = Len(PiezoPackets)
    /\ get_callback_count(devices[PiezoFile]) = 2
    /\ get_packets(devices[PiezoFile], "function")[2].all_elements[1][2] = "string"

\* the packet list the configuration module of file f declares
Configured(f) ==
    LET prefix == CASE f = BrickMFile -> "m"
                    [] f = BrickSFile -> "s"
                    [] f = PiezoFile  -> "p"
                    [] f = SingleFile -> "t"
    IN  Refs(prefix, Cardinality({r \in DOMAIN heap : r[1] = prefix}))

\* C21: in every state the packet list of a configuration whose file name
\* does not hold 'brick_' is the declared one; that of a brick is the
\* declared one, followed by the common packets once it has been processed;
\* and a Device has exactly the packets of its configuration.
C21_MergeAppends ==
    \A f \in DOMAIN com :
        /\ ~Contains(f, BrickMarker) =>
                /\ com[f].packets = Configured(f)
                /\ "common_included" \notin DOMAIN com[f]
        /\ Contains(f, BrickMarker) =>
                com[f].packets = Configured(f) \o
                    (IF "common_included" \in DOMAIN com[f]
                     THEN common_packets ELSE <<>>)
        /\ (Contains(f, BrickMarker) /\ Processed(f)) =>
                "common_included" \in DOMAIN com[f]
        /\ f \in DOMAIN devices =>
                [i \in 1..Len(devices[f].all_packets) |->
                    devices[f].all_packets[i].packet] = com[f].packets

C21_Witness ==
    /\ Len(common_packets) = 1
    /\ PiezoFile \in DOMAIN devices
    /\ com[PiezoFile].packets = Refs("p", Len(PiezoPackets))
    /\ BrickMFile \in DOMAIN devices
    /\ com[BrickMFile].packets = <<<<"m", 1>>, <<"c", 1>>>>

C23_ListenerArguments ==
    \A f \in DOMAIN output : \A j \in 1..Len(output[f].callbacks) :
        LET cb == output[f].callbacks[j]
        IN  {cb.parameter[k] : k \in 1..Len(cb.parameter)} =
                {cb.bbgets[k].element[1] : k \in 1..Len(cb.bbgets)}

\* the configuration holds a packet without an out-element
HasPacketWithoutOut(f) ==
    \E i \in 1..Len(DictsOf(f)) :
        \A k \in 1..Len(DictsOf(f)[i].elements) : DictsOf(f)[i].elements[k][4] # "out"

\* C24: a method or callback dispatch emitted for a packet without
\* out-elements holds no unpack code, and once the output file of a device
\* with such a packet has been opened its emission does not raise: the
\* source is there.
C24_NoUnpackWithoutOut ==
    /\ \A f \in DOMAIN output :
        /\ \A j \in 1..Len(output[f].methods) :
            devices[f].function_packets[j].out_elements = <<>> =>
                output[f].methods[j].bbgets = <<>>
        /\ \A j \in 1..Len(output[f].callbacks) :
            devices[f].callback_packets[j].out_elements = <<>> =>
                output[f].callbacks[j].bbgets = <<>>
    /\ \A f \in opened : HasPacketWithoutOut(f) => f \in DOMAIN output

=============================================================================
